---- MODULE Spec2Model ----
(***************************************************************************)
(* SSHClient (src/src/sshclient.ts): the client-side session and event     *)
(* correlation layer of react-native-ssh-sftp, as a state machine.         *)
(*                                                                         *)
(* The host is a single-threaded event loop.  A public method runs its     *)
(* synchronous part as one step.  A `.then`/`.catch` continuation runs as  *)
(* a microtask: after the synchronous code of the turn (which may call     *)
(* further public methods) and before any native completion callback or    *)
(* bus event is delivered.  The Native Transport completes the commands it *)
(* holds in any order, with any (error, result).                           *)
(***************************************************************************)
EXTENDS Integers, Sequences, FiniteSets, TLC

\* ---------------------------------------------------------------- bounds
MaxClients == 2
MaxPending == 2
MaxSubs == 2

\* ------------------------------------------------------------- constants
NATIVE_EVENT_SHELL == "Shell"
NATIVE_EVENT_DOWNLOAD_PROGRESS == "DownloadProgress"
NATIVE_EVENT_UPLOAD_PROGRESS == "UploadProgress"
EventNames ==
  {NATIVE_EVENT_SHELL, NATIVE_EVENT_DOWNLOAD_PROGRESS, NATIVE_EVENT_UPLOAD_PROGRESS}

\* PtyType.VANILLA and one other member of the enumeration
VANILLA == "vanilla"
PtyType == {VANILLA, "xterm"}

\* `undefined`: an absent error, an absent response, an absent handler
None == "undefined"
\* what the Native Transport may report
Errors == {"e1"}
Responses == {"", "out"}
\* event payloads and caller handlers
Values == {"v1"}
Handlers == {"h1", "h2"}
Platforms == {"ios", "android"}
\* the connection parameters a factory is called with
Host == "host"
Port == 22
Username == "user"

\* 0x10000 in getRandomClientKey
KeyRange == 65536
\* Math.random() yields n / RandDenom for n in RandomDraws (a float in [0, 1))
RandDenom == 2 * KeyRange
RandomDraws == {0, 1, 2}

VoidOps == {"sftpRename", "sftpMkdir", "sftpRm", "sftpRmdir", "sftpChmod"}
TransferOps == {"sftpUpload", "sftpDownload"}
SftpOps == {"sftpLs"} \cup VoidOps \cup TransferOps
\* native commands whose completion callback carries a response
ResponseCmds == {"execute", "startShell", "writeToShell", "sftpLs", "sftpDownload"}

VARIABLES
  os,       \* Platform.OS
  clients,  \* the SSHClient instances constructed so far, in order
  calls,    \* the public asynchronous calls whose promise is pending, in call order
  fin,      \* the public call that returned or settled in the last step
  event     \* the bus event delivered in the last step

vars == <<os, clients, calls, fin, event>>

NoCall == [op |-> None]
NoEvent == [name |-> None]

\* ------------------------------------------------- getRandomClientKey
RECURSIVE toString16(_)
\* Number.prototype.toString(16): the hex digits of n, most significant first
toString16(n) ==
  IF n < 16 THEN <<n>> ELSE Append(toString16(n \div 16), n % 16)

\* String.prototype.substring(1)
substring1(s) == IF Len(s) = 0 THEN s ELSE Tail(s)

\* Math.floor((1 + Math.random()) * 0x10000).toString(16).substring(1), with
\* floor((1 + r) * K) computed as K + floor(r * K)
getRandomClientKey(n) ==
  substring1(toString16(KeyRange + (n * KeyRange) \div RandDenom))

Keys == {getRandomClientKey(n) : n \in RandomDraws}

\* ------------------------------------------------------- the instance
\* the constructor: the fields of a new instance.  subs[name] counts the live
\* subscriptions on the Platform Event Bus whose listener is this instance's
\* handleEvent; sent collects the native commands issued during one step;
\* shellOk (sftpOk) records that a start-shell (connectSFTP) command completed
\* without error and no closeShell (disconnectSFTP) ran since;
\* resolved records that the factory's promise resolved with the instance
\* (the caller holds no reference to it before), disconnected that
\* disconnect() ran (the instance must not be used after).
constructor(n) ==
  [ key          |-> getRandomClientKey(n),
    host         |-> Host,
    port         |-> Port,
    username     |-> Username,
    listeners    |-> [e \in EventNames |-> FALSE],
    counters     |-> [download |-> 0, upload |-> 0],
    activeStream |-> [sftp |-> FALSE, shell |-> FALSE],
    handlers     |-> [e \in EventNames |-> None],
    subs         |-> [e \in EventNames |-> 0],
    shellOk      |-> FALSE,
    sftpOk       |-> FALSE,
    resolved     |-> FALSE,
    disconnected |-> FALSE,
    sent         |-> <<>> ]

\* RNSSHClient.<cmd>(..., this._key, ...)
Native(self, cmd, arg) ==
  [self EXCEPT !.sent = Append(@, [cmd |-> cmd, key |-> self.key, arg |-> arg])]

\* listenerInterface.addListener(eventName, ...) stored in this._listeners[eventName]
registerNativeListener(self, eventName) ==
  [self EXCEPT !.listeners[eventName] = TRUE, !.subs[eventName] = @ + 1]

unregisterNativeListenerKeeps(self, eventName) == self

\* listener.remove(); delete this._listeners[eventName]
unregisterNativeListener(self, eventName) ==
  IF self.listeners[eventName]
  THEN [self EXCEPT !.listeners[eventName] = FALSE, !.subs[eventName] = @ - 1]
  ELSE self

handleEventAnyKey(self, ev) == self.handlers[ev.name] # None

handleEventAnyName(self, ev) == self.key = ev.key

\* whether handleEvent invokes a handler for the event
handleEvent(self, ev) ==
  self.handlers[ev.name] # None /\ self.key = ev.key

onKeepsFirst(self, eventName, handler) ==
  IF self.handlers[eventName] # None
  THEN self
  ELSE [self EXCEPT !.handlers[eventName] = handler]

on(self, eventName, handler) ==
  [self EXCEPT !.handlers[eventName] = handler]

ConnectCmds == {"connectToHost", "connectToHostByPassword", "connectToHostByKey"}

\* the arguments of a native connect command (the key goes with every command)
ConnectArgs(self, shape) ==
  [ host |-> self.host, port |-> self.port, username |-> self.username,
    passwordOrKey |-> shape ]

connectGeneric(self, platform, shape) ==
  Native(self, "connectToHost", ConnectArgs(self, shape))

\* connect(passwordOrKey, callback): the native entry point by platform and
\* shape ("password" = a string, "key" = a {privateKey, passphrase} object)
connect(self, platform, shape) ==
  IF platform = "android"
  THEN IF shape = "password"
       THEN Native(self, "connectToHostByPassword", ConnectArgs(self, shape))
       ELSE Native(self, "connectToHostByKey", ConnectArgs(self, shape))
  ELSE Native(self, "connectToHost", ConnectArgs(self, shape))

closeShellBoth(self) ==
  [Native(unregisterNativeListener(self, NATIVE_EVENT_SHELL), "closeShell", None)
     EXCEPT !.activeStream.shell = FALSE, !.shellOk = FALSE,
            !.activeStream.sftp = FALSE]

closeShell(self) ==
  [Native(unregisterNativeListener(self, NATIVE_EVENT_SHELL), "closeShell", None)
     EXCEPT !.activeStream.shell = FALSE, !.shellOk = FALSE]

disconnectSFTP(self, platform) ==
  IF platform # "ios"
  THEN [Native(unregisterNativeListener(
                 unregisterNativeListener(self, NATIVE_EVENT_DOWNLOAD_PROGRESS),
                 NATIVE_EVENT_UPLOAD_PROGRESS), "disconnectSFTP", None)
          EXCEPT !.activeStream.sftp = FALSE, !.sftpOk = FALSE]
  ELSE [self EXCEPT !.sftpOk = FALSE]

disconnect(self, platform) ==
  LET a == IF self.activeStream.shell THEN closeShell(self) ELSE self
      b == IF a.activeStream.sftp THEN disconnectSFTP(a, platform) ELSE a
  IN  [Native(b, "disconnect", None) EXCEPT !.disconnected = TRUE]

sftpCancelUploadAlways(self) == Native(self, "sftpCancelUpload", None)

sftpCancelUploadDecrements(self) ==
  IF self.counters.upload > 0
  THEN [Native(self, "sftpCancelUpload", None) EXCEPT !.counters.upload = @ - 1]
  ELSE self

sftpCancelUpload(self) ==
  IF self.counters.upload > 0 THEN Native(self, "sftpCancelUpload", None) ELSE self

sftpCancelDownload(self) ==
  IF self.counters.download > 0 THEN Native(self, "sftpCancelDownload", None) ELSE self

\* ------------------------------------------------------ call records
\* A public call: the instance, the method, whether a callback was passed,
\* the stream flag the method tested on entry (open), whether a start-shell
\* command of the instance was in flight then (prior), where the call stands
\* (pc: "autoopen" = the helper's start-shell/connectSFTP command is with the
\* Native Transport, "micro" = the continuation is queued as a microtask,
\* "native" = the method's own command is with the Native Transport, "done"),
\* how the helper's command completed (auto: "ok" or the error), the value
\* checkShell resolved with (chk), the native commands issued for the call
\* (cmds), what the caller has observed of it, in order (trace), and, once
\* done, how it ended (via: "immediate", "helper" = the helper failed,
\* "native" = its own command completed with (err, res)); until then res is
\* what the helper's command passed, if it has completed; a call that returns
\* or settles at once carries the instance as it was on entry (before).
ClientRef(c) == "SSHClient#" \o ToString(c)

Callback(error, response) == <<"callback", error, response>>
Resolve(response) == <<"resolve", response>>
Reject(error) == <<"reject", error>>

ReplySettleFirst(cb, error, response) ==
  <<IF error # None THEN Reject(error) ELSE Resolve(response)>>
    \o (IF cb THEN <<Callback(error, response)>> ELSE <<>>)

\* the body of every completion callback:
\*   if (callback) callback(error, response);
\*   if (error) return reject(error);
\*   resolve(response);
Reply(cb, error, response) ==
  (IF cb THEN <<Callback(error, response)>> ELSE <<>>)
    \o <<IF error # None THEN Reject(error) ELSE Resolve(response)>>

\* the caller holds the instance and has not disconnected it
Live(c) ==
  c \in 1..Len(clients) /\ clients[c].resolved /\ ~clients[c].disconnected
MayStart == Len(calls) < MaxPending
\* microtasks run before the next native callback or bus event
NoMicrotask == \A i \in 1..Len(calls) : calls[i].pc # "micro"
InFlight(c, cmd) ==
  {i \in 1..Len(calls) : /\ calls[i].client = c
                         /\ calls[i].pc \in {"autoopen", "native"}
                         /\ Len(calls[i].cmds) > 0
                         /\ calls[i].cmds[Len(calls[i].cmds)].cmd = cmd}

NewCall(c, op, cb, arg, open, pc, self) ==
  [ client |-> c, op |-> op, cb |-> cb, arg |-> arg, open |-> open,
    prior |-> InFlight(c, "startShell") # {}, pc |-> pc, auto |-> None, chk |-> None,
    cmds |-> <<>>, trace |-> <<>>, via |-> None, err |-> None, res |-> None,
    before |-> None ]

\* a synchronous public call, with the instance as it was on entry
SyncCall(c, op, arg, self) ==
  [ client |-> c, op |-> op, arg |-> arg, cb |-> FALSE, pc |-> "done",
    before |-> self, cmds |-> <<>>, trace |-> <<>>, via |-> "immediate" ]

\* the commands a step issued are moved from the instance to the call
Issued(call, self) == [call EXCEPT !.cmds = @ \o self.sent]
Taken(self) == [self EXCEPT !.sent = <<>>]

RemoveHead(s, i) == Tail(s)

\* the pending calls without the i-th
Remove(s, i) == SubSeq(s, 1, i - 1) \o SubSeq(s, i + 1, Len(s))

\* a step of instance c that leaves the call pending
Pend(c, self, call) ==
  /\ clients' = [clients EXCEPT ![c] = Taken(self)]
  /\ calls' = Append(calls, Issued(call, self))
  /\ fin' = NoCall
  /\ event' = NoEvent
  /\ UNCHANGED os

\* a step of instance c in which a call returns (synchronous) or settles at once
Return(c, self, call) ==
  /\ clients' = [clients EXCEPT ![c] = Taken(self)]
  /\ fin' = [Issued(call, self) EXCEPT !.pc = "done"]
  /\ event' = NoEvent
  /\ UNCHANGED <<os, calls>>

\* ---------------------------------------------------------- operations
\* connectWithKey / connectWithPassword: new SSHClient(...), which draws its key
\* and connects
Create(op, n, cb) ==
  /\ MayStart
  /\ LET c == Len(clients) + 1
         shape == IF op = "connectWithKey" THEN "key" ELSE "password"
         self == connect(constructor(n), os, shape)
     IN  /\ clients' = Append(clients, Taken(self))
         /\ calls' = Append(calls,
                       Issued(NewCall(c, op, cb, shape, FALSE, "native", self), self))
  /\ fin' = NoCall
  /\ event' = NoEvent
  /\ UNCHANGED os

\* the first instance of the process
ConstructFirst(op, cb) ==
  /\ Len(clients) = 0
  /\ \E n \in {CHOOSE m \in RandomDraws : TRUE} : Create(op, n, cb)

\* any instance of the process
Construct(op, n, cb) ==
  /\ Len(clients) < MaxClients
  /\ Create(op, n, cb)

executeTwice(self) == Native(Native(self, "execute", None), "execute", None)

execute(self) == Native(self, "execute", None)

Call_execute(c, cb) ==
  /\ Live(c) /\ MayStart
  /\ Pend(c, execute(clients[c]),
          NewCall(c, "execute", cb, None, FALSE, "native", clients[c]))

startShellLateListen(self, ptyType) ==
  IF self.activeStream.shell
  THEN self
  ELSE Native(self, "startShell", ptyType)

\* startShell up to its return
startShell(self, ptyType) ==
  IF self.activeStream.shell
  THEN self
  ELSE Native(registerNativeListener(self, NATIVE_EVENT_SHELL), "startShell", ptyType)

Call_startShell(c, ptyType, cb) ==
  /\ Live(c)
  /\ LET self == clients[c]
         call == NewCall(c, "startShell", cb, ptyType, self.activeStream.shell,
                         "native", self)
     IN  IF self.activeStream.shell
         THEN Return(c, startShell(self, ptyType),
                     [call EXCEPT !.trace = <<Resolve("")>>, !.via = "immediate",
                                  !.before = self])
         ELSE /\ MayStart
              /\ self.subs[NATIVE_EVENT_SHELL] < MaxSubs
              /\ Pend(c, startShell(self, ptyType), call)

\* writeToShell up to its return: checkShell(callback), then a continuation
Call_writeToShell(c, cb) ==
  /\ Live(c) /\ MayStart
  /\ LET self == clients[c]
         call == NewCall(c, "writeToShell", cb, None, self.activeStream.shell,
                         "micro", self)
     IN  IF self.activeStream.shell
         THEN Pend(c, self, [call EXCEPT !.chk = ""])
         ELSE /\ self.subs[NATIVE_EVENT_SHELL] < MaxSubs
              /\ Pend(c, startShell(self, VANILLA), [call EXCEPT !.pc = "autoopen"])

Call_closeShell(c) ==
  /\ Live(c)
  /\ Return(c, closeShell(clients[c]), SyncCall(c, "closeShell", None, clients[c]))

connectSFTPNever(self) == self

connectSFTPAlways(self) == Native(self, "connectSFTP", None)

\* connectSFTP up to its return
connectSFTP(self) ==
  IF self.activeStream.sftp THEN self ELSE Native(self, "connectSFTP", None)

\* connectSFTP commands add progress subscriptions when they complete
RoomForSFTP(c) ==
  clients[c].subs[NATIVE_EVENT_DOWNLOAD_PROGRESS]
    + Cardinality(InFlight(c, "connectSFTP")) < MaxSubs

Call_connectSFTP(c, cb) ==
  /\ Live(c)
  /\ LET self == clients[c]
         call == NewCall(c, "connectSFTP", cb, None, self.activeStream.sftp,
                         "native", self)
     IN  IF self.activeStream.sftp
         THEN Return(c, connectSFTP(self),
                     [call EXCEPT !.trace = <<Resolve(None)>>, !.via = "immediate",
                                  !.before = self])
         ELSE /\ MayStart
              /\ RoomForSFTP(c)
              /\ Pend(c, connectSFTP(self), call)

\* an SFTP data operation up to its return: checkSFTP(callback), then a continuation
Call_sftp(c, op, cb) ==
  /\ Live(c) /\ MayStart
  /\ LET self == clients[c]
         call == NewCall(c, op, cb, None, self.activeStream.sftp, "micro", self)
     IN  IF self.activeStream.sftp
         THEN Pend(c, self, call)
         ELSE /\ RoomForSFTP(c)
              /\ Pend(c, connectSFTP(self), [call EXCEPT !.pc = "autoopen"])

Call_sftpCancelUpload(c) ==
  /\ Live(c)
  /\ Return(c, sftpCancelUpload(clients[c]), SyncCall(c, "sftpCancelUpload", None, clients[c]))

Call_sftpCancelDownload(c) ==
  /\ Live(c)
  /\ Return(c, sftpCancelDownload(clients[c]),
            SyncCall(c, "sftpCancelDownload", None, clients[c]))

Call_disconnectSFTP(c) ==
  /\ Live(c)
  /\ Return(c, disconnectSFTP(clients[c], os), SyncCall(c, "disconnectSFTP", None, clients[c]))

Call_disconnect(c) ==
  /\ Live(c)
  /\ Return(c, disconnect(clients[c], os), SyncCall(c, "disconnect", None, clients[c]))

Call_on(c, eventName, handler) ==
  /\ Live(c)
  /\ clients[c].handlers[eventName] # handler
  /\ Return(c, on(clients[c], eventName, handler), SyncCall(c, "on", <<eventName, handler>>, clients[c]))

\* ------------------------------------------------------- continuations
\* the executor of the promise an SFTP data operation creates after checkSFTP
sftpIssue(self, op) ==
  Native(IF op = "sftpUpload" THEN [self EXCEPT !.counters.upload = @ + 1]
         ELSE IF op = "sftpDownload" THEN [self EXCEPT !.counters.download = @ + 1]
         ELSE self,
         op, None)

RethrowsNever(call) == FALSE

RethrowsAlways(call) == TRUE

\* checkShell / checkSFTP: the helper's command failed, so .catch runs
\* (callback(error), throw error) and the method's .then is skipped
Rethrows(call) == call.auto \in Errors

\* the continuation of writeToShell or of an SFTP data operation: the helper
\* rejected or the method issues its command
Microtask(i) ==
  /\ i \in 1..Len(calls)
  /\ calls[i].pc = "micro"
  /\ LET call == calls[i]
         c == call.client
         self == clients[c]
     IN  IF Rethrows(call)
         THEN /\ fin' = [call EXCEPT !.pc = "done", !.via = "helper",
                                     !.trace = @ \o Reply(call.cb, call.auto, None)]
              /\ calls' = Remove(calls, i)
              /\ UNCHANGED clients
         ELSE LET s == IF call.op = "writeToShell"
                       THEN Native(self, "writeToShell", None)
                       ELSE sftpIssue(self, call.op)
              IN  /\ clients' = [clients EXCEPT ![c] = Taken(s)]
                  /\ calls' = [calls EXCEPT ![i] = [Issued(call, s) EXCEPT !.pc = "native"]]
                  /\ fin' = NoCall
  /\ event' = NoEvent
  /\ UNCHANGED os

\* ---------------------------------------------------- native completions
\* the factory's callback: resolve(result) hands the instance to the caller
onConnect(self, error) ==
  IF error # None THEN self ELSE [self EXCEPT !.resolved = TRUE]

onStartShellAlways(self, error) == [self EXCEPT !.activeStream.shell = TRUE]

\* startShell's completion callback, on the instance
onStartShell(self, error) ==
  IF error # None THEN self ELSE [self EXCEPT !.activeStream.shell = TRUE]

\* connectSFTP's completion callback, on the instance
onConnectSFTP(self, error) ==
  registerNativeListener(
    registerNativeListener([self EXCEPT !.activeStream.sftp = TRUE],
                           NATIVE_EVENT_DOWNLOAD_PROGRESS),
    NATIVE_EVENT_UPLOAD_PROGRESS)

onSftpUploadOnSuccess(self, error) ==
  IF error # None THEN self ELSE [self EXCEPT !.counters.upload = @ - 1]

onSftpUpload(self, error) == [self EXCEPT !.counters.upload = @ - 1]

onSftpDownload(self, error) == [self EXCEPT !.counters.download = @ - 1]

checkShellThenPlain(res) == IF res # "" /\ res # None THEN res ELSE ""

\* checkShell's .then((res) => (res ? res + '\n' : ''))
checkShellThen(res) == IF res # "" /\ res # None THEN res \o "\n" ELSE ""

FactoryReplyResolves(cb, error, c) ==
  (IF cb THEN <<Callback(error, None)>> ELSE <<>>) \o <<Resolve(ClientRef(c))>>

\* the factories' callback: callback(error), then reject(error) or resolve(result)
FactoryReply(cb, error, c) ==
  (IF cb THEN <<Callback(error, None)>> ELSE <<>>)
    \o <<IF error # None THEN Reject(error) ELSE Resolve(ClientRef(c))>>

\* the record of a start-shell / connectSFTP command completing without error
Completed(self, cmd, error) ==
  IF error # None THEN self
  ELSE IF cmd = "startShell" THEN [self EXCEPT !.shellOk = TRUE]
  ELSE IF cmd = "connectSFTP" THEN [self EXCEPT !.sftpOk = TRUE]
  ELSE self

\* what the Native Transport may pass to the completion callback of cmd
Outcomes(cmd) ==
  {<<e, None>> : e \in Errors}
    \cup {<<None, r>> : r \in (IF cmd \in ResponseCmds THEN Responses ELSE {None})}

\* the Native Transport invokes the completion callback of a command it holds
NativeComplete(i, error, response) ==
  /\ i \in 1..Len(calls)
  /\ calls[i].pc \in {"autoopen", "native"}
  /\ NoMicrotask
  /\ LET call == calls[i]
         c == call.client
         cmd == call.cmds[Len(call.cmds)].cmd
         self == clients[c]
         s == CASE cmd \in ConnectCmds -> onConnect(self, error)
                [] cmd = "startShell" -> onStartShell(self, error)
                [] cmd = "connectSFTP" -> onConnectSFTP(self, error)
                [] cmd = "sftpUpload" -> onSftpUpload(self, error)
                [] cmd = "sftpDownload" -> onSftpDownload(self, error)
                [] OTHER -> self
         result == IF cmd \in ResponseCmds THEN response ELSE None
     IN  /\ <<error, response>> \in Outcomes(cmd)
         /\ clients' = [clients EXCEPT ![c] = Completed(s, cmd, error)]
         /\ IF call.pc = "autoopen"
            THEN /\ calls' = [calls EXCEPT ![i] =
                               [call EXCEPT !.pc = "micro",
                                            !.auto = IF error = None THEN "ok" ELSE error,
                                            !.chk = IF call.op = "writeToShell" /\ error = None
                                                    THEN checkShellThen(response)
                                                    ELSE None,
                                            !.res = response]]
                 /\ fin' = NoCall
            ELSE /\ calls' = Remove(calls, i)
                 /\ fin' = [call EXCEPT
                              !.pc = "done", !.via = "native",
                              !.err = error, !.res = result,
                              !.trace = @ \o (IF call.op \in {"connectWithKey", "connectWithPassword"}
                                              THEN FactoryReply(call.cb, error, c)
                                              ELSE Reply(call.cb, error, result))]
  /\ event' = NoEvent
  /\ UNCHANGED os

\* -------------------------------------------------------------- the bus
\* the Platform Event Bus delivers {name, key, value} to every subscription
\* under that name; each one calls its instance's handleEvent
Publish(name, k, value) ==
  /\ Len(clients) > 0
  /\ NoMicrotask
  /\ LET ev == [name |-> name, key |-> k, value |-> value]
     IN  event' = [ name |-> name, key |-> k, value |-> value,
                    invoked |-> [c \in 1..Len(clients) |->
                                  IF handleEvent(clients[c], ev)
                                  THEN [j \in 1..clients[c].subs[name] |->
                                         <<clients[c].handlers[name], value>>]
                                  ELSE <<>>] ]
  /\ fin' = NoCall
  /\ UNCHANGED <<os, clients, calls>>

\* ------------------------------------------------------ specification
Init ==
  /\ os \in Platforms
  /\ clients = <<>>
  /\ calls = <<>>
  /\ fin = NoCall
  /\ event = NoEvent

Factories == {"connectWithKey", "connectWithPassword"}

Completions ==
  \/ \E i \in 1..MaxPending : Microtask(i)
  \/ \E i \in 1..MaxPending, e \in Errors \cup {None}, r \in Responses \cup {None} :
       NativeComplete(i, e, r)

\* one instance, the SFTP sub-protocol
NextSftp ==
  \/ \E op \in Factories, cb \in BOOLEAN : ConstructFirst(op, cb)
  \/ \E cb \in BOOLEAN : Call_connectSFTP(1, cb)
  \/ \E op \in SftpOps, cb \in BOOLEAN : Call_sftp(1, op, cb)
  \/ Call_sftpCancelUpload(1)
  \/ Call_sftpCancelDownload(1)
  \/ Call_disconnectSFTP(1)
  \/ Call_disconnect(1)
  \/ Completions

SpecSftp == Init /\ [][NextSftp]_vars

\* one instance, the shell sub-protocol and execute
NextShell ==
  \/ \E op \in Factories, cb \in BOOLEAN : ConstructFirst(op, cb)
  \/ \E cb \in BOOLEAN : Call_execute(1, cb)
  \/ \E p \in PtyType, cb \in BOOLEAN : Call_startShell(1, p, cb)
  \/ \E cb \in BOOLEAN : Call_writeToShell(1, cb)
  \/ Call_closeShell(1)
  \/ Call_disconnect(1)
  \/ Completions

SpecShell == Init /\ [][NextShell]_vars

\* one instance on the bus: subscriptions, handlers and events
NextEvents ==
  \/ ConstructFirst("connectWithPassword", FALSE)
  \/ Call_startShell(1, VANILLA, FALSE)
  \/ Call_closeShell(1)
  \/ Call_connectSFTP(1, FALSE)
  \/ Call_disconnectSFTP(1)
  \/ \E e \in EventNames, h \in Handlers : Call_on(1, e, h)
  \/ \E i \in 1..MaxPending, e \in Errors \cup {None}, r \in Responses \cup {None} :
       NativeComplete(i, e, r)
  \/ \E e \in EventNames, k \in Keys, v \in Values : Publish(e, k, v)

SpecEvents == Init /\ [][NextEvents]_vars

\* several instances sharing the bus: their keys and their Shell subscriptions
NextBus ==
  \/ \E n \in RandomDraws : Construct("connectWithPassword", n, FALSE)
  \/ \E c \in 1..MaxClients : Call_startShell(c, VANILLA, FALSE)
  \/ \E c \in 1..MaxClients : Call_disconnect(c)
  \/ \E c \in 1..MaxClients : Call_on(c, NATIVE_EVENT_SHELL, "h1")
  \/ \E i \in 1..MaxPending, e \in Errors \cup {None}, r \in Responses \cup {None} :
       NativeComplete(i, e, r)
  \/ \E k \in Keys, v \in Values : Publish(NATIVE_EVENT_SHELL, k, v)

SpecBus == Init /\ [][NextBus]_vars

\* one instance, every operation, a caller that awaits each promise before
\* its next asynchronous call
Awaited == Len(calls) = 0

Next ==
  \/ \E op \in Factories, cb \in BOOLEAN : ConstructFirst(op, cb)
  \/ \E cb \in BOOLEAN : Awaited /\ Call_execute(1, cb)
  \/ \E p \in PtyType, cb \in BOOLEAN : Awaited /\ Call_startShell(1, p, cb)
  \/ \E cb \in BOOLEAN : Awaited /\ Call_writeToShell(1, cb)
  \/ Call_closeShell(1)
  \/ \E cb \in BOOLEAN : Awaited /\ Call_connectSFTP(1, cb)
  \/ \E op \in SftpOps, cb \in BOOLEAN : Awaited /\ Call_sftp(1, op, cb)
  \/ Call_sftpCancelUpload(1)
  \/ Call_sftpCancelDownload(1)
  \/ Call_disconnectSFTP(1)
  \/ Call_disconnect(1)
  \/ Completions

Spec == Init /\ [][Next]_vars

\* one instance whose caller keeps at most one call of each operation pending;
\* the Native Transport invokes the completion callback of every command it
\* holds (strong fairness: a queued microtask only delays the callback) and
\* the event loop runs every queued microtask
LiveOps == {"connectWithPassword", "writeToShell", "sftpUpload"}
Pending(op) == \E i \in 1..Len(calls) : calls[i].op = op

CompleteOf(op) ==
  \E i \in 1..MaxPending, e \in Errors \cup {None}, r \in Responses \cup {None} :
    /\ i \in 1..Len(calls)
    /\ calls[i].op = op
    /\ NativeComplete(i, e, r)

NextLive ==
  \/ ConstructFirst("connectWithPassword", FALSE)
  \/ ~Pending("writeToShell") /\ Call_writeToShell(1, FALSE)
  \/ ~Pending("sftpUpload") /\ Call_sftp(1, "sftpUpload", FALSE)
  \/ Call_closeShell(1)
  \/ Completions

SpecLive ==
  /\ Init /\ [][NextLive]_vars
  /\ WF_vars(\E i \in 1..MaxPending : Microtask(i))
  /\ \A op \in LiveOps : SF_vars(CompleteOf(op))

\* ---------------------------------------------------------- properties
\* P holds of every pending call and of the call that just returned or settled
EveryCall(P(_)) ==
  /\ \A i \in 1..Len(calls) : P(calls[i])
  /\ fin.op # None => P(fin)

Finished(op) == fin.op = op
CmdNames(r) == [k \in 1..Len(r.cmds) |-> r.cmds[k].cmd]
AsyncOps == {"execute", "startShell", "writeToShell", "connectSFTP"} \cup SftpOps

\* C1 (as claimed): a startShell call made while the shell is open, or while
\* an earlier start-shell command has not completed yet, issues no native
\* command and resolves at once with the empty string.
C1_OnlyFirstStartShellIssues ==
  EveryCall(LAMBDA r :
    (r.op = "startShell" /\ (r.open \/ r.prior)) =>
      (r.cmds = <<>> /\ r.pc = "done" /\ r.trace = <<Resolve("")>>))

\* C2: each counter equals the number of native transfer commands of its kind
\* that were issued and have not completed; so it is never negative and it is
\* zero when no transfer is in flight, whatever succeeded or failed.
C2_CountersMatchInFlight ==
  \A c \in 1..Len(clients) :
    /\ clients[c].counters.upload = Cardinality(InFlight(c, "sftpUpload"))
    /\ clients[c].counters.download = Cardinality(InFlight(c, "sftpDownload"))

\* an upload has just failed while another one is still in flight
C2_Witness ==
  /\ Finished("sftpUpload") /\ fin.via = "native" /\ fin.err \in Errors
  /\ clients[1].counters.upload = 1
  /\ InFlight(1, "sftpUpload") # {}

\* C3: sftpCancelUpload (sftpCancelDownload) issues exactly the native cancel
\* command when its counter is positive on entry, and nothing otherwise.
C3_CancelIffInFlight ==
  /\ Finished("sftpCancelUpload") =>
       CmdNames(fin) = IF fin.before.counters.upload > 0
                       THEN <<"sftpCancelUpload">> ELSE <<>>
  /\ Finished("sftpCancelDownload") =>
       CmdNames(fin) = IF fin.before.counters.download > 0
                       THEN <<"sftpCancelDownload">> ELSE <<>>

C3_Witness ==
  /\ Finished("sftpCancelUpload")
  /\ fin.before.counters.upload = 0
  /\ fin.before.counters.download > 0
  /\ fin.cmds = <<>>

\* C4: a delivered event whose key is not the instance's key invokes no
\* handler of the instance, whatever its name, the handlers registered and
\* the subscriptions the instance holds.
C4_ForeignKeyIgnored ==
  event.name # None =>
    \A c \in 1..Len(clients) :
      clients[c].key # event.key => event.invoked[c] = <<>>

\* an event with a foreign key reached a live subscription of an instance that
\* has a handler for its name
C4_Witness ==
  /\ event.name # None
  /\ clients[1].key # event.key
  /\ clients[1].subs[event.name] > 0
  /\ clients[1].handlers[event.name] # None
  /\ event.invoked[1] = <<>>

\* C5 (as claimed): disconnect() called with shell and SFTP both open leaves
\* both flags false and no listener recorded, and issues native disconnect.
C5_DisconnectClosesBoth ==
  (Finished("disconnect") /\ fin.before.activeStream.shell
                          /\ fin.before.activeStream.sftp) =>
    LET self == clients[fin.client]
    IN  /\ ~self.activeStream.shell
        /\ ~self.activeStream.sftp
        /\ \A e \in EventNames : ~self.listeners[e]
        /\ fin.cmds[Len(fin.cmds)].cmd = "disconnect"

\* C6: sftpLs called with the SFTP flag false issues connectSFTP, then - not
\* before that command completed without error - sftpLs, one of each, and
\* resolves with the listing the Native Transport passed.
C6_LsAfterConnect ==
  EveryCall(LAMBDA r :
    (r.op = "sftpLs" /\ ~r.open) =>
      /\ r.pc = "autoopen" => (CmdNames(r) = <<"connectSFTP">> /\ r.auto = None)
      /\ r.pc = "micro" => CmdNames(r) = <<"connectSFTP">>
      /\ r.pc = "native" => (CmdNames(r) = <<"connectSFTP", "sftpLs">> /\ r.auto = "ok")
      /\ (r.pc = "done" /\ r.via = "native") =>
           /\ CmdNames(r) = <<"connectSFTP", "sftpLs">>
           /\ r.auto = "ok"
           /\ r.err = None => r.trace[Len(r.trace)] = Resolve(r.res))

C6_Witness ==
  /\ Finished("sftpLs") /\ ~fin.open
  /\ fin.res = "out"
  /\ fin.trace[Len(fin.trace)] = Resolve("out")

\* C7: an SFTP data operation whose automatic connectSFTP failed with e never
\* issues its own command (nor counts a transfer), passes e to the callback
\* and rejects with e.
C7_AutoConnectFailure ==
  /\ EveryCall(LAMBDA r :
       (r.op \in SftpOps /\ r.auto \in Errors) =>
         /\ ~r.open
         /\ CmdNames(r) = <<"connectSFTP">>
         /\ r.pc \in {"micro", "done"}
         /\ r.pc = "micro" => r.trace = <<>>
         /\ r.pc = "done" =>
              r.trace = (IF r.cb THEN <<Callback(r.auto, None)>> ELSE <<>>)
                          \o <<Reject(r.auto)>>)
  /\ \A c \in 1..Len(clients) :
       \A op \in TransferOps :
         (\A i \in InFlight(c, op) : calls[i].auto \notin Errors)

C7_Witness ==
  /\ Finished("sftpUpload") /\ fin.cb
  /\ fin.auto \in Errors
  /\ fin.trace = <<Callback(fin.auto, None), Reject(fin.auto)>>
  /\ clients[1].counters.upload = 0

\* C8: when the completion callback of an asynchronous operation's command
\* fires with (error, result), the caller's callback (if any) gets (error,
\* result) first, then the promise is rejected with error or resolved with
\* result, once.
C8_CallbackThenSettle ==
  (fin.op \in AsyncOps /\ fin.via = "native") =>
    fin.trace = (IF fin.cb THEN <<Callback(fin.err, fin.res)>> ELSE <<>>)
                  \o <<IF fin.err # None THEN Reject(fin.err) ELSE Resolve(fin.res)>>

C8_Witness ==
  /\ Finished("sftpDownload") /\ fin.via = "native" /\ fin.cb
  /\ fin.trace = <<Callback(None, "out"), Resolve("out")>>

\* C9: a factory constructs one instance and issues one native connect command
\* with the instance's key; when that command completes, the callback (if any)
\* gets the error, then the promise is rejected with the error or resolved
\* with the instance.
C9_FactoryContract ==
  EveryCall(LAMBDA r :
    r.op \in Factories =>
      /\ r.client \in 1..Len(clients)
      /\ Len(r.cmds) = 1
      /\ r.cmds[1].cmd \in ConnectCmds
      /\ r.cmds[1].key = clients[r.client].key
      /\ r.pc = "native" => r.trace = <<>>
      /\ r.pc = "done" =>
           r.trace = (IF r.cb THEN <<Callback(r.err, None)>> ELSE <<>>)
                       \o <<IF r.err # None THEN Reject(r.err)
                            ELSE Resolve(ClientRef(r.client))>>)

C9_Witness ==
  /\ Finished("connectWithKey") /\ fin.cb
  /\ fin.trace = <<Callback("e1", None), Reject("e1")>>

\* C10 (as claimed): two distinct instances that were constructed and not
\* disconnected never hold the same correlation key.
C10_LiveKeysDistinct ==
  \A c, d \in 1..Len(clients) :
      (c # d /\ ~clients[c].disconnected /\ ~clients[d].disconnected) =>
      clients[c].key # clients[d].key

\* C11 (as claimed): the SFTP flag is true, or a progress listener is
\* recorded, only if a connectSFTP command completed without error since the
\* instance was constructed or disconnectSFTP last ran; so a completion that
\* reports an error leaves the flag false and registers no progress listener.
C11_SftpOpenOnlyAfterSuccess ==
  \A c \in 1..Len(clients) :
    (\/ clients[c].activeStream.sftp
     \/ clients[c].listeners[NATIVE_EVENT_DOWNLOAD_PROGRESS]
     \/ clients[c].listeners[NATIVE_EVENT_UPLOAD_PROGRESS]) => clients[c].sftpOk

\* C12: the shell flag is true only if a start-shell command completed without
\* error and closeShell (called directly or by disconnect) has not run since;
\* so a completion that reports an error never sets it.
C12_ShellOpenOnlyAfterSuccess ==
  \A c \in 1..Len(clients) : clients[c].activeStream.shell => clients[c].shellOk

\* a start-shell command has just failed: the listener stays, the flag is false
C12_Witness ==
  /\ Finished("startShell") /\ fin.via = "native" /\ fin.err \in Errors
  /\ clients[1].listeners[NATIVE_EVENT_SHELL]
  /\ ~clients[1].activeStream.shell
  /\ ~clients[1].shellOk

\* C13 (as claimed): an instance holds at most one live bus subscription per
\* event name, and a live subscription is the one its listeners map records.
C13_OneSubscriptionPerName ==
  \A c \in 1..Len(clients) :
    \A e \in EventNames :
      clients[c].subs[e] = IF clients[c].listeners[e] THEN 1 ELSE 0

\* C14 (as claimed): when disconnect() has returned, the instance holds no live
\* bus subscription and its listeners map is empty.
C14_DisconnectLeavesNoSubscription ==
  Finished("disconnect") =>
    \A e \in EventNames :
      /\ clients[fin.client].subs[e] = 0
      /\ ~clients[fin.client].listeners[e]

\* C15 (as claimed): on every platform disconnectSFTP() removes both progress
\* listeners, issues the native SFTP-disconnect command and leaves the SFTP
\* flag false.
C15_DisconnectSFTPEveryPlatform ==
  Finished("disconnectSFTP") =>
    /\ ~clients[fin.client].listeners[NATIVE_EVENT_DOWNLOAD_PROGRESS]
    /\ ~clients[fin.client].listeners[NATIVE_EVENT_UPLOAD_PROGRESS]
    /\ CmdNames(fin) = <<"disconnectSFTP">>
    /\ ~clients[fin.client].activeStream.sftp

\* C16: closeShell() removes the Shell subscription the listeners map records
\* (if any), issues the native close-shell command and leaves the shell flag
\* false; it touches nothing else of the instance, so called with the shell
\* closed and no listener recorded it leaves the listeners map, the SFTP flag
\* and the counters as they were.
C16_CloseShell ==
  Finished("closeShell") =>
    LET self == clients[fin.client]
        before == fin.before
    IN  /\ CmdNames(fin) = <<"closeShell">>
        /\ ~self.activeStream.shell
        /\ ~self.listeners[NATIVE_EVENT_SHELL]
        /\ self.subs[NATIVE_EVENT_SHELL] =
             before.subs[NATIVE_EVENT_SHELL]
               - (IF before.listeners[NATIVE_EVENT_SHELL] THEN 1 ELSE 0)
        /\ \A e \in EventNames \ {NATIVE_EVENT_SHELL} :
             /\ self.listeners[e] = before.listeners[e]
             /\ self.subs[e] = before.subs[e]
        /\ self.activeStream.sftp = before.activeStream.sftp
        /\ self.counters = before.counters
        /\ self.handlers = before.handlers

\* closeShell has just closed an open shell while SFTP is open
C16_Witness ==
  /\ Finished("closeShell")
  /\ fin.before.activeStream.shell
  /\ fin.before.listeners[NATIVE_EVENT_SHELL]
  /\ fin.before.activeStream.sftp
  /\ clients[fin.client].subs[NATIVE_EVENT_SHELL] = 0

\* C17: on(e, h) replaces the handler kept under e and no other, and a
\* delivered event invokes the handler kept under its name at that time; so
\* after on(e, h1), on(e, h2) an event e invokes h2 and never h1.
C17_LastHandlerWins ==
  /\ Finished("on") =>
       clients[fin.client].handlers =
         [fin.before.handlers EXCEPT ![fin.arg[1]] = fin.arg[2]]
  /\ event.name # None =>
       \A c \in 1..Len(clients) :
         \A j \in 1..Len(event.invoked[c]) :
           event.invoked[c][j] = <<clients[c].handlers[event.name], event.value>>

\* on has just replaced h1 by h2 under the Shell name, another name keeps h1
C17_Witness ==
  /\ Finished("on")
  /\ fin.arg = <<NATIVE_EVENT_SHELL, "h2">>
  /\ fin.before.handlers[NATIVE_EVENT_SHELL] = "h1"
  /\ clients[1].handlers[NATIVE_EVENT_SHELL] = "h2"
  /\ clients[1].handlers[NATIVE_EVENT_UPLOAD_PROGRESS] = "h1"
  /\ clients[1].subs[NATIVE_EVENT_SHELL] > 0

\* C18: connectSFTP() called with the SFTP flag true resolves at once, issues
\* no native command and changes nothing of the instance (no listener added).
C18_ConnectSFTPIdempotent ==
  (Finished("connectSFTP") /\ fin.open) =>
    /\ fin.cmds = <<>>
    /\ fin.via = "immediate"
    /\ fin.trace = <<Resolve(None)>>
    /\ clients[fin.client] = fin.before

C18_Witness ==
  /\ Finished("connectSFTP") /\ fin.open /\ fin.cb
  /\ fin.before.sftpOk
  /\ fin.trace = <<Resolve(None)>>

\* C19: writeToShell called with the shell flag false issues start-shell with
\* the vanilla PTY, then - only once that command completed without error -
\* the write command, and resolves with the write's reply; if start-shell
\* failed with e it issues no write, passes e to the callback and rejects with
\* e. Called with the shell flag true it issues only the write command.
C19_WriteAfterStart ==
  EveryCall(LAMBDA r :
    r.op = "writeToShell" =>
      IF r.open
      THEN /\ r.auto = None
           /\ CmdNames(r) = IF r.pc = "micro" THEN <<>> ELSE <<"writeToShell">>
      ELSE /\ Len(r.cmds) >= 1
           /\ r.cmds[1].cmd = "startShell" /\ r.cmds[1].arg = VANILLA
           /\ r.pc = "autoopen" => (Len(r.cmds) = 1 /\ r.auto = None)
           /\ r.pc = "micro" => Len(r.cmds) = 1
           /\ r.pc = "native" =>
                (CmdNames(r) = <<"startShell", "writeToShell">> /\ r.auto = "ok")
           /\ (r.pc = "done" /\ r.via = "native") =>
                /\ CmdNames(r) = <<"startShell", "writeToShell">>
                /\ r.auto = "ok"
                /\ r.err = None => r.trace[Len(r.trace)] = Resolve(r.res)
           /\ r.auto \in Errors =>
                /\ Len(r.cmds) = 1
                /\ r.pc \in {"micro", "done"}
                /\ r.pc = "micro" => r.trace = <<>>
                /\ r.pc = "done" =>
                     r.trace = (IF r.cb THEN <<Callback(r.auto, None)>> ELSE <<>>)
                                 \o <<Reject(r.auto)>>)

\* a write that opened the shell itself has resolved with the write's reply
C19_Witness ==
  /\ Finished("writeToShell") /\ ~fin.open /\ fin.via = "native"
  /\ CmdNames(fin) = <<"startShell", "writeToShell">>
  /\ fin.res = "out"
  /\ fin.trace[Len(fin.trace)] = Resolve("out")

\* C20 (as claimed): disconnect() issues close-shell iff the shell flag was
\* true, then SFTP-disconnect iff the SFTP flag was true, then exactly one
\* native disconnect, in every state.
C20_DisconnectSequence ==
  Finished("disconnect") =>
    CmdNames(fin) =
      (IF fin.before.activeStream.shell THEN <<"closeShell">> ELSE <<>>)
        \o (IF fin.before.activeStream.sftp THEN <<"disconnectSFTP">> ELSE <<>>)
        \o <<"disconnect">>

\* the operation of the call that acted in the step: it returned or settled,
\* it was made, or it moved on (a continuation ran, a helper's command completed)
Acted(ops) ==
  \/ fin'.op \in ops
  \/ /\ Len(calls') = Len(calls) + 1
     /\ calls'[Len(calls')].op \in ops
  \/ /\ Len(calls') = Len(calls)
     /\ \E i \in 1..Len(calls) : calls'[i] # calls[i] /\ calls[i].op \in ops

\* the parts of an instance the shell and the SFTP sub-protocols keep
ShellPart(self) ==
  << self.activeStream.shell, self.listeners[NATIVE_EVENT_SHELL],
     self.subs[NATIVE_EVENT_SHELL] >>
SftpPart(self) ==
  << self.activeStream.sftp, self.counters,
     self.listeners[NATIVE_EVENT_DOWNLOAD_PROGRESS],
     self.listeners[NATIVE_EVENT_UPLOAD_PROGRESS],
     self.subs[NATIVE_EVENT_DOWNLOAD_PROGRESS],
     self.subs[NATIVE_EVENT_UPLOAD_PROGRESS] >>

\* C21: an event delivered with the instance's own key invokes, once per
\* subscription the instance holds under the event's name, the handler kept
\* under that name with exactly the event's value; with no handler under that
\* name nothing is invoked; the delivery changes no instance and no call.
C21_OwnKeyDispatch ==
  [][event'.name # None =>
       /\ clients' = clients /\ calls' = calls
       /\ \A c \in 1..Len(clients) :
            clients[c].key = event'.key =>
              event'.invoked[c] =
                IF clients[c].handlers[event'.name] = None
                THEN <<>>
                ELSE [j \in 1..clients[c].subs[event'.name] |->
                       <<clients[c].handlers[event'.name], event'.value>>]]_vars

\* an own-key Shell event reached the handler h2 through the one subscription,
\* while an own-key event under a name without handler would be dropped
C21_Witness ==
  /\ event.name = NATIVE_EVENT_SHELL
  /\ event.key = clients[1].key
  /\ clients[1].handlers[NATIVE_EVENT_DOWNLOAD_PROGRESS] = None
  /\ event.invoked[1] = << <<"h2", event.value>> >>

\* C22: nothing joins an SFTP call to a connectSFTP command already in flight:
\* every SFTP data call (and connectSFTP call) that saw the SFTP flag false
\* issued a connectSFTP command of its own, so the connectSFTP commands in
\* flight are as many as those calls still waiting for theirs - two after two
\* first calls on a fresh instance.
C22_EachFirstCallConnects ==
  /\ EveryCall(LAMBDA r :
       (r.op \in SftpOps \cup {"connectSFTP"} /\ ~r.open) =>
         (Len(r.cmds) >= 1 /\ r.cmds[1].cmd = "connectSFTP"))
  /\ \A c \in 1..Len(clients) :
       Cardinality(InFlight(c, "connectSFTP")) =
         Cardinality({i \in 1..Len(calls) :
                        /\ calls[i].client = c
                        /\ \/ calls[i].op \in SftpOps /\ calls[i].pc = "autoopen"
                           \/ calls[i].op = "connectSFTP" /\ calls[i].pc = "native"})

\* two sftpLs calls on a fresh instance, each with its connectSFTP in flight
C22_Witness ==
  /\ Len(calls) = 2
  /\ \A i \in 1..2 : /\ calls[i].op = "sftpLs" /\ ~calls[i].open
                     /\ calls[i].pc = "autoopen"
                     /\ CmdNames(calls[i]) = <<"connectSFTP">>
  /\ Cardinality(InFlight(1, "connectSFTP")) = 2
  /\ ~clients[1].activeStream.sftp /\ ~clients[1].sftpOk
  /\ clients[1].subs[NATIVE_EVENT_DOWNLOAD_PROGRESS] = 0

\* C23: sftpCancelUpload and sftpCancelDownload leave the instance as it was
\* (counters, flags, listeners, subscriptions); a counter goes down only in
\* the step in which a native transfer command of its kind completes, and
\* then by one.
C23_CancelKeepsCounters ==
  [][/\ fin'.op \in {"sftpCancelUpload", "sftpCancelDownload"} =>
          clients'[fin'.client] = clients[fin'.client]
     /\ \A c \in 1..Len(clients) :
          /\ clients'[c].counters.upload < clients[c].counters.upload =>
               /\ fin'.op = "sftpUpload" /\ fin'.via = "native" /\ fin'.client = c
               /\ clients'[c].counters.upload = clients[c].counters.upload - 1
          /\ clients'[c].counters.download < clients[c].counters.download =>
               /\ fin'.op = "sftpDownload" /\ fin'.via = "native" /\ fin'.client = c
               /\ clients'[c].counters.download = clients[c].counters.download - 1]_vars

\* sftpCancelUpload has just issued the cancel command for the upload in
\* flight, and the upload still counts
C23_Witness ==
  /\ Finished("sftpCancelUpload")
  /\ CmdNames(fin) = <<"sftpCancelUpload">>
  /\ fin.before.counters.upload = 1
  /\ clients[1].counters.upload = 1
  /\ InFlight(1, "sftpUpload") # {}

\* C24: a native completion acts on one pending call, the one whose command
\* it completes: either that call settles - it leaves the pending calls, its
\* callback (if any) and promise get this completion's (error, result) - or,
\* for a helper's command, that call alone moves on; every other pending call
\* is left as it was, whatever the order of completions.
C24_CompletionOwnCall ==
  [][(NoMicrotask /\ calls' # calls /\ Len(calls') <= Len(calls)) =>
       \E i \in 1..Len(calls) :
         /\ calls[i].pc \in {"autoopen", "native"}
         /\ \/ /\ calls[i].pc = "native"
               /\ Len(calls') = Len(calls) - 1
               /\ \A j \in 1..Len(calls') :
                    calls'[j] = IF j < i THEN calls[j] ELSE calls[j + 1]
               /\ fin'.op = calls[i].op /\ fin'.client = calls[i].client
               /\ fin'.cb = calls[i].cb /\ fin'.cmds = calls[i].cmds
               /\ fin'.via = "native"
               /\ fin'.trace =
                    calls[i].trace
                      \o (IF fin'.op \in Factories
                          THEN FactoryReply(fin'.cb, fin'.err, fin'.client)
                          ELSE Reply(fin'.cb, fin'.err, fin'.res))
            \/ /\ calls[i].pc = "autoopen"
               /\ Len(calls') = Len(calls)
               /\ fin'.op = None
               /\ calls'[i].pc = "micro" /\ calls'[i].trace = calls[i].trace
               /\ \A j \in 1..Len(calls) : j # i => calls'[j] = calls[j]]_vars

\* sftpRm has just failed while an sftpLs command is still in flight: the
\* sftpLs caller has observed nothing
C24_Witness ==
  /\ Finished("sftpRm") /\ fin.via = "native" /\ fin.cb
  /\ fin.trace = <<Callback("e1", None), Reject("e1")>>
  /\ Len(calls) = 1
  /\ calls[1].op = "sftpLs" /\ calls[1].cb /\ calls[1].pc = "native"
  /\ calls[1].trace = <<>>

\* C25: no call retries: a factory issues one connect command; execute,
\* startShell and connectSFTP issue their command at most once; writeToShell
\* and the SFTP data operations issue at most one helper command
\* (start-shell, connectSFTP) and after it at most once their own; and a call
\* whose helper's command failed issues nothing more.
C25_NoRetry ==
  EveryCall(LAMBDA r :
    /\ r.op \in Factories =>
         (Len(r.cmds) = 1 /\ r.cmds[1].cmd \in ConnectCmds)
    /\ r.op \in {"execute", "startShell", "connectSFTP"} =>
         CmdNames(r) \in {<<>>, <<r.op>>}
    /\ r.op = "writeToShell" =>
         CmdNames(r) \in {<<>>, <<r.op>>, <<"startShell">>, <<"startShell", r.op>>}
    /\ r.op \in SftpOps =>
         CmdNames(r) \in {<<>>, <<r.op>>, <<"connectSFTP">>, <<"connectSFTP", r.op>>}
    /\ (r.op \in AsyncOps /\ r.auto \in Errors) => Len(r.cmds) = 1
    /\ (r.op \in AsyncOps /\ r.pc = "done") =>
         (r.via = "native" => r.cmds[Len(r.cmds)].cmd = r.op))

\* sftpRm connected by itself, then its own command failed: two commands, no more
C25_Witness ==
  /\ Finished("sftpRm") /\ ~fin.open
  /\ fin.via = "native" /\ fin.err \in Errors
  /\ CmdNames(fin) = <<"connectSFTP", "sftpRm">>
  /\ Len(calls) = 0

\* C26: the promise of a call that issues a native command is pending - the
\* caller has observed nothing - until that command's completion callback
\* fires: a call that has a command with the Native Transport, or a
\* continuation queued, has settled nothing, and a settled call that issued a
\* command ended by its own command's completion or by the failure of its
\* helper's command.
C26_PendingUntilCompletion ==
  EveryCall(LAMBDA r :
    (r.op \in AsyncOps \cup Factories) =>
      /\ r.pc \in {"autoopen", "micro", "native"} => r.trace = <<>>
      /\ (r.pc = "done" /\ r.cmds # <<>>) =>
           \/ r.via = "native" /\ r.cmds[Len(r.cmds)].cmd \notin {"startShell", "connectSFTP"} \ {r.op}
           \/ r.via = "helper" /\ r.auto \in Errors
      /\ (r.pc = "done" /\ r.cmds = <<>>) => (r.via = "immediate" /\ r.open))

\* sftpLs connected by itself and its own command is with the Native
\* Transport: nothing observed yet
C26_Witness ==
  /\ Len(calls) = 1
  /\ calls[1].op = "sftpLs" /\ calls[1].cb
  /\ calls[1].pc = "native"
  /\ CmdNames(calls[1]) = <<"connectSFTP", "sftpLs">>
  /\ calls[1].trace = <<>>
  /\ fin.op = None

ShellOps == {"startShell", "writeToShell", "closeShell"}
SftpSideOps ==
  {"connectSFTP", "sftpCancelUpload", "sftpCancelDownload", "disconnectSFTP"}
    \cup SftpOps

\* C27: a step of startShell, writeToShell or closeShell (the call, its
\* continuation, its commands' completions) leaves the SFTP flag, the counters
\* and the progress listeners and subscriptions as they were; a step of
\* connectSFTP, an SFTP data operation, a cancel or disconnectSFTP leaves the
\* shell flag and the Shell listener and subscriptions as they were.
C27_ShellSftpIndependent ==
  [][\A c \in 1..Len(clients) :
       /\ Acted(ShellOps) => SftpPart(clients'[c]) = SftpPart(clients[c])
       /\ Acted(SftpSideOps) => ShellPart(clients'[c]) = ShellPart(clients[c])]_vars

\* a start-shell command has just completed without error while SFTP is open
C27_Witness ==
  /\ Finished("startShell") /\ fin.via = "native" /\ fin.err = None
  /\ clients[1].activeStream.shell
  /\ clients[1].activeStream.sftp
  /\ clients[1].listeners[NATIVE_EVENT_UPLOAD_PROGRESS]
  /\ clients[1].sftpOk

\* the session state of an instance
Session(self) ==
  << self.activeStream, self.counters, self.listeners, self.subs, self.handlers >>

C29_ListenBeforeStart ==
  [][\A c \in 1..Len(clients) :
       LET sub == clients[c].subs[NATIVE_EVENT_SHELL]
           sub2 == clients'[c].subs[NATIVE_EVENT_SHELL]
           new == calls'[Len(calls')]
       IN  /\ ( /\ Len(calls') = Len(calls) + 1
                /\ new.client = c
                /\ new.cmds # <<>>
                /\ new.cmds[1].cmd = "startShell" ) =>
                  (~new.open /\ sub2 = sub + 1
                     /\ clients'[c].listeners[NATIVE_EVENT_SHELL])
           /\ ( \/ sub2 < sub
                \/ /\ clients[c].listeners[NATIVE_EVENT_SHELL]
                   /\ ~clients'[c].listeners[NATIVE_EVENT_SHELL] ) =>
                  (fin'.op \in {"closeShell", "disconnect"} /\ fin'.client = c)
           /\ (~clients[c].activeStream.shell /\ clients'[c].activeStream.shell) =>
                \E i \in InFlight(c, "startShell") :
                  \/ /\ fin'.op = "startShell" /\ fin'.via = "native"
                     /\ fin'.err = None /\ fin'.cmds = calls[i].cmds
                  \/ /\ Len(calls') = Len(calls)
                     /\ calls[i].pc = "autoopen" /\ calls'[i].auto = "ok"]_vars

\* a start-shell command is in flight: the subscription is there, the flag is
\* still false
C29_Witness ==
  /\ Len(calls) = 1
  /\ calls[1].op = "startShell" /\ calls[1].pc = "native"
  /\ CmdNames(calls[1]) = <<"startShell">>
  /\ clients[1].listeners[NATIVE_EVENT_SHELL]
  /\ clients[1].subs[NATIVE_EVENT_SHELL] = 1
  /\ ~clients[1].activeStream.shell

\* C30: a factory's connect step issues exactly one native connect command:
\* on Android connectToHostByPassword for a password and connectToHostByKey
\* for a key pair, on any other platform connectToHost for both; the command
\* carries the instance's host, port, username, the credential given and the
\* instance's key.
C30_ConnectEntryPoint ==
  EveryCall(LAMBDA r :
    r.op \in Factories =>
      LET self == clients[r.client]
          shape == IF r.op = "connectWithKey" THEN "key" ELSE "password"
      IN  /\ Len(r.cmds) = 1
          /\ r.cmds[1].cmd =
               (IF os # "android" THEN "connectToHost"
                ELSE IF shape = "password" THEN "connectToHostByPassword"
                ELSE "connectToHostByKey")
          /\ r.cmds[1].key = self.key
          /\ r.cmds[1].arg = [ host |-> self.host, port |-> self.port,
                               username |-> self.username,
                               passwordOrKey |-> shape ])

\* on Android connectWithKey has resolved after connectToHostByKey
C30_Witness ==
  /\ os = "android"
  /\ Finished("connectWithKey") /\ fin.err = None
  /\ CmdNames(fin) = <<"connectToHostByKey">>
  /\ fin.cmds[1].arg.passwordOrKey = "key"
  /\ clients[1].resolved

\* C31 (as claimed): sftpCancelUpload (sftpCancelDownload) called while an
\* sftpUpload (sftpDownload) call is pending - its promise not settled -
\* issues the native cancel command.
C31_CancelWhilePending ==
  /\ (Finished("sftpCancelUpload")
        /\ \E i \in 1..Len(calls) :
             calls[i].client = fin.client /\ calls[i].op = "sftpUpload") =>
       CmdNames(fin) = <<"sftpCancelUpload">>
  /\ (Finished("sftpCancelDownload")
        /\ \E i \in 1..Len(calls) :
             calls[i].client = fin.client /\ calls[i].op = "sftpDownload") =>
       CmdNames(fin) = <<"sftpCancelDownload">>

\* C32 (as claimed): whenever the shell flag is true the instance holds a live
\* Shell subscription that its listeners map records.
C32_ShellOpenHasListener ==
  \A c \in 1..Len(clients) :
    clients[c].activeStream.shell =>
      /\ clients[c].listeners[NATIVE_EVENT_SHELL]
      /\ clients[c].subs[NATIVE_EVENT_SHELL] >= 1

\* C33 (as claimed): once disconnect() ran on an instance, no step changes its
\* flags, counters, listeners or subscriptions.
C33_NothingAfterDisconnect ==
  [][\A c \in 1..Len(clients) :
       clients[c].disconnected => Session(clients'[c]) = Session(clients[c])]_vars

\* C34 (as claimed): when a start-shell command issued by startShell has
\* completed with an error, the shell flag is false and no Shell subscription
\* is live or recorded.
C34_FailedStartShellCleansUp ==
  (Finished("startShell") /\ fin.via = "native" /\ fin.err \in Errors) =>
    LET self == clients[fin.client]
    IN  /\ ~self.activeStream.shell
        /\ ~self.listeners[NATIVE_EVENT_SHELL]
        /\ self.subs[NATIVE_EVENT_SHELL] = 0

\* C35 (as claimed): an SFTP data operation skips connectSFTP, and an SFTP
\* data command is issued, only in a state where a connectSFTP command has
\* completed without error since the instance was constructed or
\* disconnectSFTP last ran.
C35_DataCommandNeedsConnect ==
  [][/\ ( /\ Len(calls') = Len(calls) + 1
          /\ calls'[Len(calls')].op \in SftpOps
          /\ calls'[Len(calls')].open ) =>
            clients[calls'[Len(calls')].client].sftpOk
     /\ \A i \in 1..Len(calls) :
          ( /\ Len(calls') = Len(calls)
            /\ calls[i].op \in SftpOps
            /\ calls[i].pc = "micro" /\ calls'[i].pc = "native" ) =>
              clients[calls[i].client].sftpOk]_vars

\* the number of times the caller's callback was invoked for the call
Callbacks(r) == Cardinality({k \in 1..Len(r.trace) : r.trace[k][1] = "callback"})

\* C36 (as claimed): the callback passed to an asynchronous call has been
\* invoked exactly once when the call's promise has settled, and never more
\* than once before.
C36_CallbackExactlyOnce ==
  EveryCall(LAMBDA r :
    (r.op \in AsyncOps /\ r.cb) =>
      /\ Callbacks(r) <= 1
      /\ r.pc = "done" => Callbacks(r) = 1)

\* C37 (as claimed): an event published once invokes an instance's handler at
\* most once; and while no Shell listener is recorded (closeShell returned, no
\* startShell since) a Shell event invokes no handler of the instance.
C37_AtMostOncePerEvent ==
  event.name # None =>
    \A c \in 1..Len(clients) :
      /\ Len(event.invoked[c]) <= 1
      /\ (event.name = NATIVE_EVENT_SHELL
            /\ ~clients[c].listeners[NATIVE_EVENT_SHELL]) => event.invoked[c] = <<>>

\* C38: if the Native Transport completes every command it receives, every
\* pending call settles: the factory's, a writeToShell that starts the shell
\* itself, an sftpUpload that connects SFTP itself, also while another call is
\* pending.
C38_EveryPromiseSettles ==
  \A op \in LiveOps : Pending(op) ~> (fin.op = op /\ fin.pc = "done")

\* a writeToShell that started the shell itself has settled while an
\* sftpUpload that connected by itself has its command in flight
C38_Witness ==
  /\ Finished("writeToShell") /\ ~fin.open /\ fin.via = "native"
  /\ Len(calls) = 1
  /\ calls[1].op = "sftpUpload" /\ ~calls[1].open /\ calls[1].pc = "native"

\* C39 (as claimed): checkShell resolves with the empty string when the shell
\* flag is true and otherwise, after a successful start, with the shell's
\* initial output followed by a newline, whatever that output is.
C39_NewlineAlways ==
  EveryCall(LAMBDA r :
    (r.op = "writeToShell" /\ r.pc = "micro") =>
      IF r.open THEN r.chk = ""
      ELSE r.auto = "ok" => r.chk = r.res \o "\n")

\* C39 (amended): as above, but an empty initial output yields the empty
\* string, without newline.
C39_NewlineUnlessEmpty ==
  EveryCall(LAMBDA r :
    (r.op = "writeToShell" /\ r.pc = "micro") =>
      IF r.open THEN r.chk = ""
      ELSE r.auto = "ok" =>
             r.chk = IF r.res = "" THEN "" ELSE r.res \o "\n")

\* checkShell has started the shell, which printed "out"
C39_Witness ==
  /\ Len(calls) >= 1
  /\ calls[1].op = "writeToShell" /\ calls[1].pc = "micro"
  /\ ~calls[1].open /\ calls[1].auto = "ok"
  /\ calls[1].res = "out"
  /\ calls[1].chk = "out\n"
====
